---- MODULE Spec2Model ----
(***************************************************************************)
(* Model of the two scripts of the repository:                             *)
(*   todo.py             - TodoManager, a task list mirrored to tasks.json *)
(*   password_genrator.py - generate_password                              *)
(***************************************************************************)
EXTENDS Integers, Sequences, FiniteSets, TLC

\* ---------------------------------------------------------------- bounds
\* add_task is not offered once the list holds MaxTasks tasks
MaxTasks == 3
\* add_task is not offered once the next id would exceed MaxId; the ids
\* passed to complete_task and delete_task range over 1..MaxId
MaxId == 3
\* longest record list found in tasks.json at start-up
MaxStored == 2

\* ------------------------------------------------------------ Task model
Fields == {"id", "description", "category", "status", "created_at"}

Pending == "Pending"
\* the literal "Done " followed by the check-mark character U+2705
DoneMark == "Done [U+2705]"

Descriptions == {"buy milk"}
Categories   == {"General", "Personal"}
\* datetime.now().strftime("%Y-%m-%d %H:%M") when add_task runs; the records
\* found in tasks.json at start-up were made a minute earlier
Timestamps   == {"2026-11-05 18:01"}

\* variant: the two text arguments passed in the other order
Task_Swapped(id, description, category, created_at) ==
  [id |-> id, description |-> category, category |-> description,
   status |-> "Pending", created_at |-> created_at]

\* the dataclass constructor, status defaulting to "Pending"
Task(id, description, category, created_at) ==
  [id |-> id, description |-> description, category |-> category,
   status |-> Pending, created_at |-> created_at]

to_dict(t) ==
  [id |-> t.id, description |-> t.description, category |-> t.category,
   status |-> t.status, created_at |-> t.created_at]

\* data["id"], data["description"], ... : a missing key raises KeyError,
\* any further key of the dictionary is dropped
HasAllFields(data) == Fields \subseteq DOMAIN data

from_dict(data) ==
  [id |-> data["id"], description |-> data["description"],
   category |-> data["category"], status |-> data["status"],
   created_at |-> data["created_at"]]

\* ------------------------------------------------------------- the file
\* tasks.json is one of
\*   missing  - os.path.exists is false
\*   notjson  - json.load raises JSONDecodeError (this includes the empty
\*              file left by open(DATA_FILE, "w") before anything is written)
\*   scalar   - valid JSON that is a number: iterating it raises TypeError
\*   list     - a JSON list of objects, recs
Missing == [kind |-> "missing", recs |-> <<>>]
NotJson == [kind |-> "notjson", recs |-> <<>>]
Scalar  == [kind |-> "scalar",  recs |-> <<>>]
JsonList(recs) == [kind |-> "list", recs |-> recs]

\* variant: the list is dumped without its last task
Dicts_DropLast(ts) ==
  [i \in 1..(Len(ts) - 1) |->
     [id |-> ts[i].id, description |-> ts[i].description, category |-> ts[i].category,
      status |-> ts[i].status, created_at |-> ts[i].created_at]]

\* [task.to_dict() for task in self.tasks]
Dicts(ts) == [i \in 1..Len(ts) |-> to_dict(ts[i])]

\* variant: the file opened with mode "a", the new text lands after the old
WriteFile_Append(old, recs) ==
  IF old.kind = "missing" THEN JsonList(recs) ELSE NotJson

\* open(DATA_FILE, "w") followed by json.dump: the old contents are discarded
WriteFile(old, recs) == JsonList(recs)

\* load_tasks: what self.tasks is afterwards and whether an exception left it
LoadTasks(f, cur) ==
  CASE f.kind = "missing" -> [raised |-> FALSE, tasks |-> cur]
    [] f.kind = "notjson" -> [raised |-> FALSE, tasks |-> <<>>]
    [] f.kind = "scalar"  -> [raised |-> TRUE,  tasks |-> cur]
    [] f.kind = "list"    ->
         IF \A i \in 1..Len(f.recs) : HasAllFields(f.recs[i])
         THEN [raised |-> FALSE,
               tasks |-> [i \in 1..Len(f.recs) |-> from_dict(f.recs[i])]]
         ELSE [raised |-> TRUE, tasks |-> cur]

\* ------------------------------------------- pure parts of the operations
Ids(ts) == {ts[i].id : i \in 1..Len(ts)}

Max(S) == CHOOSE m \in S : \A x \in S : x <= m

\* variant: the id taken from the number of tasks
NewId_Count(ts) == Len(ts) + 1

\* variant: the + 1 forgotten
NewId_NoIncrement(ts) == IF ts = <<>> THEN 1 ELSE Max(Ids(ts))

\* new_id = 1 if not self.tasks else max(t.id for t in self.tasks) + 1
NewId(ts) == IF ts = <<>> THEN 1 ELSE Max(Ids(ts)) + 1

\* task = Task(id=new_id, ...); self.tasks.append(task)
AppendTask(ts, description, category, now) ==
  Append(ts, Task(NewId(ts), description, category, now))

\* index of the first task with the id, 0 when the loop finds none
FirstIndex(ts, task_id) ==
  IF \E i \in 1..Len(ts) : ts[i].id = task_id
  THEN CHOOSE i \in 1..Len(ts) :
         /\ ts[i].id = task_id
         /\ \A j \in 1..(i - 1) : ts[j].id # task_id
  ELSE 0

\* variant: the loop does not stop at the first match
MarkDone_All(ts, i) ==
  [j \in 1..Len(ts) |-> IF ts[j].id = ts[i].id THEN [ts[j] EXCEPT !.status = DoneMark] ELSE ts[j]]

\* task.status = "Done ..." on the first match
MarkDone(ts, i) == [ts EXCEPT ![i].status = DoneMark]

\* variant: the filter written with > in place of !=
Keep_Greater(t, task_id) == t.id > task_id

\* [t for t in self.tasks if t.id != task_id]
Keep(t, task_id) == t.id # task_id
Without(ts, task_id) == SelectSeq(ts, LAMBDA t : Keep(t, task_id))

\* variant: the comparison written with <=
Removed_OrEqual(initial_count, ts) == Len(ts) <= initial_count

\* len(self.tasks) < initial_count
Removed(initial_count, ts) == Len(ts) < initial_count

\* ------------------------------------------------------- return values
None      == [type |-> "NoneType", val |-> <<>>]
Bool(b)   == [type |-> "bool", val |-> <<b>>]

\* ------------------------------------------------------------ the state
VARIABLES
  file,       \* contents of tasks.json
  tasks,      \* TodoManager.tasks
  pc,         \* "start" before TodoManager(), "ready" after, "raised" when
              \* the constructor let an exception out
  call,       \* the last call made on the manager
  ret,        \* what it returned
  wrote,      \* whether it opened tasks.json for writing
  prevTasks,  \* self.tasks when the call was made
  prevFile,   \* tasks.json when the call was made
  deleted,    \* ids of the tasks delete_task has removed so far
  fresh,      \* the manager started on a missing file or an empty list
  \* two processes running todo.py on the same tasks.json
  mtasks,     \* self.tasks of each process
  mpc,        \* "start", "ready" (constructed), "saving" (inside save_tasks,
              \* file opened), "done" (add_task returned), "raised"
  early,      \* the process loaded before any process opened the file to write
  overlapped, \* another process wrote the file while this one had it open
  base,       \* tasks.json before either process started
  \* one call of generate_password
  length,     \* the argument
  password,   \* the list after random.shuffle
  result,     \* the string returned
  ppc         \* "call" before the call, "returned" after

storeVars == <<tasks, pc, call, ret, wrote, prevTasks, prevFile, deleted, fresh>>
procVars  == <<mtasks, mpc, early, overlapped, base>>
pwVars    == <<length, password, result, ppc>>
vars == <<file, storeVars, procVars, pwVars>>

Procs == {"p1", "p2"}

StoreIdle ==
  /\ tasks = <<>>
  /\ pc = "off"
  /\ call = [name |-> "none", id |-> 0, description |-> "", category |-> ""]
  /\ ret = None
  /\ wrote = FALSE
  /\ prevTasks = <<>>
  /\ prevFile = Missing
  /\ deleted = {}
  /\ fresh = FALSE

ProcsIdle ==
  /\ mtasks = [p \in Procs |-> <<>>]
  /\ mpc = [p \in Procs |-> "off"]
  /\ early = [p \in Procs |-> FALSE]
  /\ overlapped = [p \in Procs |-> FALSE]
  /\ base = Missing

PwIdle ==
  /\ length = 0
  /\ password = <<>>
  /\ result = ""
  /\ ppc = "off"

NoCall == [name |-> "none", id |-> 0, description |-> "", category |-> ""]

\* records that tasks.json may hold when the program starts
StoredRecords ==
  {to_dict([Task(i, "buy milk", "General", "2026-11-05 18:00") EXCEPT !.status = s]) :
      i \in 1..2, s \in {Pending, DoneMark}}
  \cup {[id |-> 1, description |-> "buy milk", category |-> "General",
         created_at |-> "2026-11-05 18:00"]}
  \cup {[id |-> 2, description |-> "buy milk", category |-> "General",
         status |-> Pending, created_at |-> "2026-11-05 18:00", priority |-> "high"]}

RECURSIVE SeqsUpTo(_, _)
SeqsUpTo(S, n) ==
  IF n = 0 THEN {<<>>}
  ELSE LET shorter == SeqsUpTo(S, n - 1)
       IN shorter \cup {Append(s, x) : s \in shorter, x \in S}

StartFiles ==
  {Missing, NotJson, Scalar} \cup {JsonList(recs) : recs \in SeqsUpTo(StoredRecords, MaxStored)}

Init ==
  /\ file \in StartFiles
  /\ tasks = <<>>
  /\ pc = "start"
  /\ call = NoCall
  /\ ret = None
  /\ wrote = FALSE
  /\ prevTasks = <<>>
  /\ prevFile = file
  /\ deleted = {}
  /\ fresh = (file \in {Missing, JsonList(<<>>)})
  /\ ProcsIdle
  /\ PwIdle

\* TodoManager(): self.tasks = [] then load_tasks()
Load ==
  /\ pc = "start"
  /\ LET r == LoadTasks(file, <<>>)
     IN /\ tasks' = r.tasks
        /\ pc' = IF r.raised THEN "raised" ELSE "ready"
  /\ call' = [NoCall EXCEPT !.name = "load"]
  /\ ret' = None
  /\ wrote' = FALSE
  /\ prevTasks' = tasks
  /\ prevFile' = file
  /\ UNCHANGED <<file, deleted, fresh, procVars, pwVars>>

\* add_task(description, category)
AddTask(description, category, now) ==
  /\ pc = "ready"
  /\ Len(tasks) < MaxTasks
  /\ NewId(tasks) <= MaxId
  /\ tasks' = AppendTask(tasks, description, category, now)
  /\ file' = WriteFile(file, Dicts(tasks'))
  /\ call' = [name |-> "add", id |-> 0, description |-> description, category |-> category]
  /\ ret' = None
  /\ wrote' = TRUE
  /\ prevTasks' = tasks
  /\ prevFile' = file
  /\ UNCHANGED <<pc, deleted, fresh, procVars, pwVars>>

\* complete_task(task_id)
CompleteTask(task_id) ==
  /\ pc = "ready"
  /\ LET i == FirstIndex(tasks, task_id)
     IN IF i # 0
        THEN /\ tasks' = MarkDone(tasks, i)
             /\ file' = WriteFile(file, Dicts(tasks'))
             /\ wrote' = TRUE
             /\ ret' = Bool(TRUE)
        ELSE /\ UNCHANGED <<tasks, file>>
             /\ wrote' = FALSE
             /\ ret' = Bool(FALSE)
  /\ call' = [NoCall EXCEPT !.name = "complete", !.id = task_id]
  /\ prevTasks' = tasks
  /\ prevFile' = file
  /\ UNCHANGED <<pc, deleted, fresh, procVars, pwVars>>

\* delete_task(task_id)
DeleteTask(task_id) ==
  /\ pc = "ready"
  /\ tasks' = Without(tasks, task_id)
  /\ IF Removed(Len(tasks), tasks')
     THEN /\ file' = WriteFile(file, Dicts(tasks'))
          /\ wrote' = TRUE
          /\ ret' = Bool(TRUE)
          /\ deleted' = deleted \cup {task_id}
     ELSE /\ UNCHANGED <<file, deleted>>
          /\ wrote' = FALSE
          /\ ret' = Bool(FALSE)
  /\ call' = [NoCall EXCEPT !.name = "delete", !.id = task_id]
  /\ prevTasks' = tasks
  /\ prevFile' = file
  /\ UNCHANGED <<pc, fresh, procVars, pwVars>>

Next ==
  \/ Load
  \/ \E d \in Descriptions, c \in Categories, now \in Timestamps : AddTask(d, c, now)
  \/ \E task_id \in 1..MaxId : CompleteTask(task_id)
  \/ \E task_id \in 1..MaxId : DeleteTask(task_id)

Spec == Init /\ [][Next]_vars

TypeOK ==
  /\ pc \in {"start", "ready", "raised"}
  /\ Len(tasks) <= MaxTasks
  /\ file.kind \in {"missing", "notjson", "scalar", "list"}

\* ------------------------------------- two processes on one tasks.json
\* Each process runs main() once with the command "add": TodoManager(),
\* then add_task, whose save_tasks opens the file (truncating it) and then
\* dumps the list and closes it.
InitProcs ==
  /\ file \in StartFiles
  /\ base = file
  /\ mtasks = [p \in Procs |-> <<>>]
  /\ mpc = [p \in Procs |-> "start"]
  /\ early = [p \in Procs |-> FALSE]
  /\ overlapped = [p \in Procs |-> FALSE]
  /\ StoreIdle
  /\ PwIdle

\* TodoManager() in process p
PLoad(p) ==
  /\ mpc[p] = "start"
  /\ LET r == LoadTasks(file, <<>>)
     IN /\ mtasks' = [mtasks EXCEPT ![p] = r.tasks]
        /\ mpc' = [mpc EXCEPT ![p] = IF r.raised THEN "raised" ELSE "ready"]
  /\ early' = [early EXCEPT ![p] = \A q \in Procs : mpc[q] \notin {"saving", "done"}]
  /\ UNCHANGED <<file, overlapped, base, storeVars, pwVars>>

\* add_task in process p up to open(DATA_FILE, "w"), which empties the file
PAddOpen(p, description, category, now) ==
  /\ mpc[p] = "ready"
  /\ mtasks' = [mtasks EXCEPT ![p] = AppendTask(mtasks[p], description, category, now)]
  /\ file' = NotJson
  /\ mpc' = [mpc EXCEPT ![p] = "saving"]
  /\ overlapped' = [overlapped EXCEPT ![p] = FALSE]
  /\ UNCHANGED <<early, base, storeVars, pwVars>>

\* json.dump and the close of the file in process p, add_task returns.
\* When another process wrote the file since p opened it, p's bytes land on
\* top of the other's: the file is p's list, or p's list followed by the
\* tail of the longer text, which is not JSON.
PAddDump(p) ==
  /\ mpc[p] = "saving"
  /\ \/ file' = WriteFile(file, Dicts(mtasks[p]))
     \/ overlapped[p] /\ file' = NotJson
  /\ mpc' = [mpc EXCEPT ![p] = "done"]
  /\ overlapped' = [q \in Procs |-> IF q # p /\ mpc[q] = "saving" THEN TRUE ELSE overlapped[q]]
  /\ UNCHANGED <<mtasks, early, base, storeVars, pwVars>>

NextProcs ==
  \/ \E p \in Procs : PLoad(p)
  \/ \E p \in Procs, d \in Descriptions, c \in Categories, now \in Timestamps :
        PAddOpen(p, d, c, now)
  \/ \E p \in Procs : PAddDump(p)

SpecProcs == InitProcs /\ [][NextProcs]_vars

\* ---------------------------------------------------- generate_password
\* longest password asked for
MaxLength == 5

\* samples of string.ascii_lowercase, ascii_uppercase, digits, punctuation
lower   == {"a", "z"}
upper   == {"A", "Z"}
digits  == {"0", "9"}
symbols == {"!", "~"}
all_chars == lower \cup upper \cup digits \cup symbols

\* the four random.choice calls of the list literal
FirstFour == {<<l, u, d, s>> : l \in lower, u \in upper, d \in digits, s \in symbols}

\* variant: the four mandatory characters counted as three
Extra_OffByOne(len) == IF len > 4 THEN len - 3 ELSE 0

\* how many characters the comprehension adds: range(length - 4) when length > 4
Extra(len) == IF len > 4 THEN len - 4 ELSE 0

\* [random.choice(all_chars) for _ in range(length - 4)]
Fill(len) == [1..Extra(len) -> all_chars]

\* random.shuffle(password): every reordering of the list
Shuffles(pw) ==
  {[i \in 1..Len(pw) |-> pw[f[i]]] : f \in Permutations(1..Len(pw))}

\* ''.join(password)
RECURSIVE Join(_)
Join(pw) == IF pw = <<>> THEN "" ELSE Head(pw) \o Join(Tail(pw))

InitPw ==
  /\ length \in 1..MaxLength
  /\ password = <<>>
  /\ result = ""
  /\ ppc = "call"
  /\ file = Missing
  /\ StoreIdle
  /\ ProcsIdle

generate_password ==
  /\ ppc = "call"
  /\ \E four \in FirstFour, rest \in Fill(length) :
       \E shuffled \in Shuffles(four \o rest) :
          /\ password' = shuffled
          /\ result' = Join(shuffled)
  /\ ppc' = "returned"
  /\ UNCHANGED <<length, file, storeVars, procVars>>

NextPw == generate_password

SpecPw == InitPw /\ [][NextPw]_vars

\* ------------------------------------------------------------ properties
Last(s) == s[Len(s)]
Mutating == {"add", "complete", "delete"}
Succeeded == call.name = "add" \/ ret = Bool(TRUE)
Unique(ts) == \A i, j \in 1..Len(ts) : i # j => ts[i].id # ts[j].id

\* C1: right after every add, every complete that returned true and every
\* delete that returned true, tasks.json is a list with one record per task
\* of self.tasks, in the same order, each holding exactly the five fields
\* with the task's values.
C1_WriteThrough ==
  (call.name \in Mutating /\ Succeeded) =>
     /\ file.kind = "list"
     /\ Len(file.recs) = Len(tasks)
     /\ \A i \in 1..Len(tasks) :
          /\ DOMAIN file.recs[i] = Fields
          /\ \A k \in Fields : file.recs[i][k] = tasks[i][k]

C1_Witness ==
  /\ call.name = "complete"
  /\ ret = Bool(TRUE)
  /\ Len(tasks) >= 2
  /\ prevFile # file
  /\ file = JsonList(Dicts(tasks))

C3_IdsUniquePositive ==
  fresh => /\ Unique(tasks)
           /\ \A i \in 1..Len(tasks) : tasks[i].id \in Nat /\ tasks[i].id >= 1

C3_Witness ==
  /\ fresh
  /\ Len(tasks) = 3
  /\ deleted # {}
  /\ call.name = "add"

\* what add_task does to self.tasks, whatever it returns
AddAppends ==
  /\ Len(tasks) = Len(prevTasks) + 1
  /\ SubSeq(tasks, 1, Len(prevTasks)) = prevTasks
  /\ Last(tasks).id = (IF prevTasks = <<>> THEN 1 ELSE Max(Ids(prevTasks)) + 1)
  /\ Last(tasks).status = "Pending"
  /\ Last(tasks).description = call.description
  /\ Last(tasks).category = call.category

\* C5 as stated: add appends one task with id max + 1 (1 on an empty store),
\* status Pending and the given description and category, leaves the other
\* tasks alone, and returns the created Task.
C5_AddReturnsTask ==
  call.name = "add" =>
     /\ AddAppends
     /\ ret.type = "Task"
     /\ ret.val = <<Last(tasks)>>

\* C5 amended: add appends one task with id max + 1 (1 on an empty store),
\* status Pending and the given description and category, leaves the other
\* tasks alone, and returns nothing (None).
C5_AddReturnsNone ==
  call.name = "add" => (AddAppends /\ ret = None)

C5_Witness ==
  /\ call.name = "add"
  /\ call.category = "Personal"
  /\ Len(prevTasks) = 2
  /\ Last(tasks).id = 3

\* what complete_task does on an id the store has, the status value aside
CompleteMarks(done) ==
  LET i == FirstIndex(prevTasks, call.id)
  IN /\ ret = Bool(TRUE)
     /\ Len(tasks) = Len(prevTasks)
     /\ tasks[i].status = done
     /\ \A k \in Fields \ {"status"} : tasks[i][k] = prevTasks[i][k]
     /\ \A j \in 1..Len(tasks) : j # i => tasks[j] = prevTasks[j]

\* C6 as stated: complete on an id the store has returns true and leaves the
\* task with status Done, its other fields and the other tasks unchanged.
C6_CompleteSetsDone ==
  (call.name = "complete" /\ call.id \in Ids(prevTasks)) => CompleteMarks("Done")

\* C6 amended: complete on an id the store has returns true and leaves the
\* first task with that id with the status string "Done " + U+2705 (the
\* check mark is part of the stored value), whether it was Pending or
\* already marked; its other fields and the other tasks are unchanged.
C6_CompleteSetsDoneMark ==
  (call.name = "complete" /\ call.id \in Ids(prevTasks)) => CompleteMarks(DoneMark)

C6_Witness ==
  /\ call.name = "complete"
  /\ call.id \in Ids(prevTasks)
  /\ prevTasks[FirstIndex(prevTasks, call.id)].status = DoneMark
  /\ \E j \in 1..Len(tasks) : tasks[j].status = Pending

\* C7: on a store with unique ids that has the id, delete returns true and
\* self.tasks becomes the previous list with that one task taken out, the
\* others keeping their fields and their order.
C7_DeleteRemovesOne ==
  (call.name = "delete" /\ Unique(prevTasks) /\ call.id \in Ids(prevTasks)) =>
     LET i == FirstIndex(prevTasks, call.id)
     IN /\ ret = Bool(TRUE)
        /\ tasks = SubSeq(prevTasks, 1, i - 1) \o SubSeq(prevTasks, i + 1, Len(prevTasks))

C7_Witness ==
  /\ call.name = "delete"
  /\ call.id = 1
  /\ Ids(prevTasks) = {1, 2, 3}
  /\ Len(tasks) = 2
  /\ Ids(tasks) = {2, 3}

\* C8: complete and delete on an id no task has return false, do not open
\* tasks.json for writing, and leave self.tasks and the file as they were.
C8_UnknownId ==
  (call.name \in {"complete", "delete"} /\ call.id \notin Ids(prevTasks)) =>
     /\ ret = Bool(FALSE)
     /\ ~wrote
     /\ tasks = prevTasks
     /\ file = prevFile

C8_Witness ==
  /\ call.name = "delete"
  /\ call.id \notin Ids(prevTasks)
  /\ prevTasks # <<>>
  /\ prevFile.kind = "list"

\* a file that is not a list of records carrying all five fields
Corrupted(f) ==
  \/ f.kind \in {"notjson", "scalar"}
  \/ f.kind = "list" /\ \E i \in 1..Len(f.recs) : ~HasAllFields(f.recs[i])

\* C9: load on a missing file or on a corrupted one (not JSON, or JSON that
\* is not a list of records with all five fields) gives an empty list and
\* raises nothing.
C9_LenientLoad ==
  (call.name = "load" /\ (prevFile.kind = "missing" \/ Corrupted(prevFile))) =>
     /\ pc = "ready"
     /\ tasks = <<>>

\* C4: for every length >= 4 the string generate_password returns has
\* exactly length characters, among them a lowercase letter, an uppercase
\* letter, a digit and a punctuation symbol.
C4_PasswordShape ==
  (ppc = "returned" /\ length >= 4) =>
     /\ result = Join(password)
     /\ Len(result) = length
     /\ Len(password) = length
     /\ \E i \in 1..Len(password) : password[i] \in lower
     /\ \E i \in 1..Len(password) : password[i] \in upper
     /\ \E i \in 1..Len(password) : password[i] \in digits
     /\ \E i \in 1..Len(password) : password[i] \in symbols

C4_Witness ==
  /\ ppc = "returned"
  /\ length = 5
  /\ password[1] \in symbols
  /\ password[5] \in lower
  /\ Cardinality({i \in 1..5 : password[i] \in digits}) = 2

\* both processes constructed their manager before either opened the file
\* for writing, and both add_task calls have returned
BothLoadedThenAdded ==
  /\ \A p \in Procs : mpc[p] = "done"
  /\ \A p \in Procs : early[p]

\* what load_tasks makes of the file both processes started from
BaseTasks == LoadTasks(base, <<>>).tasks

\* C10: when two processes both load tasks.json and then both add a task,
\* both adds return without an error and the file ends up with the effect
\* of at most one of them: it never holds the loaded tasks plus both new
\* ones, and when it is a list it is the loaded tasks plus the one task of
\* one process.
C10_LostUpdate ==
  BothLoadedThenAdded =>
     /\ \A p \in Procs : Len(mtasks[p]) = Len(BaseTasks) + 1
     /\ file.kind \in {"list", "notjson"}
     /\ file.kind = "list" =>
          /\ Len(file.recs) = Len(BaseTasks) + 1
          /\ \E p \in Procs :
               \A i \in 1..Len(file.recs) : \A k \in Fields :
                  file.recs[i][k] = mtasks[p][i][k]

C10_Witness ==
  /\ BothLoadedThenAdded
  /\ base.kind = "list"
  /\ Len(base.recs) = 2
  /\ file.kind = "list"
  /\ Len(file.recs) = 3
  /\ mtasks["p1"][3].category = "General"
  /\ mtasks["p2"][3].category = "Personal"
  /\ file.recs[3].category = "Personal"
====
